---- MODULE Spec2Model ----
(***************************************************************************)
(* Model of pympc/control/controllers_gurobi.py:                           *)
(* HybridModelPredictiveController (the relaxation oracle over one shared  *)
(* Gurobi program) and get_big_m (the big-M table).                        *)
(*                                                                         *)
(* Python lists are sequences (list index t is position t+1); the          *)
(* variables d<t>[<i>] of the program are addressed as in the source, by   *)
(* the stage t in 0..N-1 and the mode i in 0..nm-1.  Python's None is None *)
(* and a present optional value v is Just(v).  Floating-point indicator    *)
(* values are integers in units of 1e-8.                                   *)
(***************************************************************************)
EXTENDS Integers, Sequences, FiniteSets, TLC

VARIABLES
    x0LB, x0UB,             \* bounds of the stage-0 state variables x0[k]
    dLB,                    \* lower bound of every indicator d<t>[<i>]
    dUB,                    \* upper bound of every indicator d<t>[<i>]
    dVType,                 \* variable type of every indicator d<t>[<i>]
    partial_mode_sequence,  \* self.partial_mode_sequence
    Cutoff,                 \* the program's Cutoff parameter
    VBasis, CBasis,         \* the basis attributes held by the program
    call,                   \* the most recent call and its arguments
    solved,                 \* the solve of the most recent call: the program as
                            \* optimize() saw it and the solver's answer
    result,                 \* what the most recent call returned
    P_list,                 \* the polyhedra handed to get_big_m
    bigM                    \* what get_big_m returned

vars == <<x0LB, x0UB, dLB, dUB, dVType, partial_mode_sequence, Cutoff,
          VBasis, CBasis, call, solved, result, P_list, bigM>>

ctlVars == <<x0LB, x0UB, dLB, dUB, dVType, partial_mode_sequence, Cutoff,
             VBasis, CBasis, call, solved, result>>

bigMVars == <<P_list, bigM>>

-----------------------------------------------------------------------------
(* Sizes of the instance.                                                  *)

N == 2

nm == 2

nx == 1

Stages == 0 .. (N - 1)

Modes == 0 .. (nm - 1)

None == <<>>

Just(v) == <<v>>

\* grb.GRB.INFINITY, as a number above every value of the model
Infinity == 1000000

\* values an initial condition x0[k] is drawn from
X0Values == {0, 1}

\* optimal objective values a solve can have
Costs == {1, 2}

\* values a caller passes as cutoff_value
CutoffValues == {1}

\* basis snapshots the solver can leave in the program
Bases == {"basis1"}

\* 1.0 in units of 1e-8
One == 100000000

\* np.allclose defaults: atol = 1e-8, rtol = 1e-5 (= 1/RtolInv)
Atol == 1

RtolInv == 100000

Abs(a) == IF a < 0 THEN 0 - a ELSE a

\* all sequences over S of length 0..n
RECURSIVE SeqsUpTo(_, _)
SeqsUpTo(S, n) ==
    IF n = 0 THEN {<<>>}
    ELSE LET shorter == SeqsUpTo(S, n - 1)
         IN  shorter \cup {Append(s, e) : s \in {q \in shorter : Len(q) = n - 1}, e \in S}

\* the valid partial mode sequences: length <= N, entries in [0,nm)
PartialSequences == SeqsUpTo(Modes, N)

X0Vectors == [1 .. nx -> X0Values]

-----------------------------------------------------------------------------
(* read_gurobi_status                                                      *)

read_gurobi_status(status) ==
    CASE status = 1 -> "loaded"
      [] status = 2 -> "optimal"
      [] status = 3 -> "infeasible"
      [] status = 4 -> "inf_or_unbd"
      [] status = 5 -> "unbounded"
      [] status = 6 -> "cutoff"
      [] status = 7 -> "iteration_limit"
      [] status = 8 -> "node_limit"
      [] status = 9 -> "time_limit"
      [] status = 10 -> "solution_limit"
      [] status = 11 -> "interrupted"
      [] status = 12 -> "numeric"
      [] status = 13 -> "suboptimal"
      [] status = 14 -> "in_progress"
      [] status = 15 -> "user_obj_limit"

-----------------------------------------------------------------------------
(* set_initial_condition, update_mode_sequence, set_d_type as functions on *)
(* the bounds they write.                                                  *)

\* set_initial_condition: LB = UB = x0[k] for every k
InitialConditionBounds(x0) == [k \in 1 .. nx |-> x0[k]]

\* update_mode_sequence with the comparison of the write-and-erase branch
\* inverted (== for !=)
UpdateStageInverted(lb, t, old, new) ==
    IF t < Len(new) /\ t < Len(old)
    THEN IF new[t + 1] = old[t + 1]
         THEN LET erased == [lb EXCEPT ![t][old[t + 1]] = 0]
              IN  [erased EXCEPT ![t][new[t + 1]] = 1]
         ELSE lb
    ELSE IF t >= Len(new) /\ t < Len(old)
    THEN [lb EXCEPT ![t][old[t + 1]] = 0]
    ELSE IF t < Len(new) /\ t >= Len(old)
    THEN [lb EXCEPT ![t][new[t + 1]] = 1]
    ELSE lb

\* update_mode_sequence without its erase-only branch
UpdateStageNoErase(lb, t, old, new) ==
    IF t < Len(new) /\ t < Len(old)
    THEN IF new[t + 1] # old[t + 1]
         THEN LET erased == [lb EXCEPT ![t][old[t + 1]] = 0]
              IN  [erased EXCEPT ![t][new[t + 1]] = 1]
         ELSE lb
    ELSE IF t < Len(new) /\ t >= Len(old)
    THEN [lb EXCEPT ![t][new[t + 1]] = 1]
    ELSE lb

\* the three branches of update_mode_sequence at stage t, applied to the
\* lower bounds lb, with old = self.partial_mode_sequence and new the argument
UpdateStage(lb, t, old, new) ==
    IF t < Len(new) /\ t < Len(old)
    THEN IF new[t + 1] # old[t + 1]
         THEN LET erased == [lb EXCEPT ![t][old[t + 1]] = 0]
              IN  [erased EXCEPT ![t][new[t + 1]] = 1]
         ELSE lb
    ELSE IF t >= Len(new) /\ t < Len(old)
    THEN [lb EXCEPT ![t][old[t + 1]] = 0]
    ELSE IF t < Len(new) /\ t >= Len(old)
    THEN [lb EXCEPT ![t][new[t + 1]] = 1]
    ELSE lb

\* the loop "for t in range(self.N)" of update_mode_sequence, stages 0..n-1
RECURSIVE UpdateLoop(_, _, _, _)
UpdateLoop(lb, n, old, new) ==
    IF n = 0 THEN lb
    ELSE UpdateStage(UpdateLoop(lb, n - 1, old, new), n - 1, old, new)

UpdatedLB(lb, old, new) == UpdateLoop(lb, N, old, new)

\* set_d_type: every indicator gets the type d_type
DType(d_type) == [t \in Stages |-> [i \in Modes |-> d_type]]

-----------------------------------------------------------------------------
(* The convex solver behind self.prog.optimize().  It is handed the        *)
(* program (indicator bounds and types, the Cutoff parameter) and answers  *)
(* with a status and, on status 2, with sol: the objective value, the      *)
(* primal values and the basis the code reads.  Which optimum the program  *)
(* has depends on the system, so it is a choice: opt is Just(c) when the   *)
(* program has the optimal value c and None when it has none.  The         *)
(* statuses are those of the table of read_gurobi_status: 6 when the       *)
(* optimum is worse than Cutoff (or the program is infeasible under a      *)
(* cutoff), 3/4/5 without an optimum, 12 and 13 whatever the optimum.      *)

\* indicator values (units of 1e-8): 0, within / just outside the allclose
\* tolerance of 0, one half, within the tolerance of 1, and 1
DValues == {0, Atol, Atol + 1, One \div 2, One - Atol - 1, One - Atol, One}


RECURSIVE SumSeq(_)
SumSeq(s) == IF s = <<>> THEN 0 ELSE Head(s) + SumSeq(Tail(s))

\* the rows d<t>[0..nm-1] the solver can return at one stage: within the
\* bounds, of the declared type, and on the simplex sum(d.values()) == 1
RowAdmitted(r, lbRow, ubRow, typeRow) ==
    /\ SumSeq(r) = One
    /\ \A i \in Modes :
          /\ r[i + 1] >= lbRow[i] * One
          /\ ubRow[i] < Infinity => r[i + 1] <= ubRow[i] * One
          /\ typeRow[i] = "B" => r[i + 1] \in {0, One}

DRows(lbRow, ubRow, typeRow, values) ==
    {r \in [1 .. nm -> values] : RowAdmitted(r, lbRow, ubRow, typeRow)}

\* the indicator matrices of stages 0..n-1
RECURSIVE DMatrices(_, _, _, _, _)
DMatrices(n, lb, ub, type, values) ==
    IF n = 0 THEN {<<>>}
    ELSE {Append(d, r) : d \in DMatrices(n - 1, lb, ub, type, values),
                         r \in DRows(lb[n - 1], ub[n - 1], type[n - 1], values)}

\* the state and input trajectories: x0 is pinned by its bounds; the free
\* values are not read by anything modelled and are represented by 0
XTrajectory(xlb) == [t \in 1 .. (N + 1) |-> IF t = 1 THEN xlb ELSE [k \in 1 .. nx |-> 0]]

UTrajectory == [t \in 1 .. N |-> <<0>>]

\* every relaxed indicator matrix over DValues
RelaxedMatrices(prog) == DMatrices(N, prog.lb, prog.ub, prog.vtype, DValues)

\* one vertex of the simplex per stage: the lowest mode the bounds admit
UnitRow(i) == [j \in 1 .. nm |-> IF j = i + 1 THEN One ELSE 0]

LeastVertex(prog) ==
    LET admitted == [t \in Stages |->
                       {i \in Modes :
                           RowAdmitted(UnitRow(i), prog.lb[t], prog.ub[t], prog.vtype[t])}]
    IN  IF \E t \in Stages : admitted[t] = {} THEN {}
        ELSE {[t \in 1 .. N |->
                  UnitRow(CHOOSE i \in admitted[t - 1] : \A j \in admitted[t - 1] : i <= j)]}

\* the indicator matrices the solver is taken to return: every relaxed
\* matrix, or one vertex
Matrices(prog, relaxed) ==
    IF relaxed THEN RelaxedMatrices(prog) ELSE LeastVertex(prog)

\* the solutions with a cost in costs
Solutions(prog, costs, relaxed) ==
    {[objVal |-> c, x |-> XTrajectory(prog.x0lb), u |-> UTrajectory, d |-> d, basis |-> b] :
        c \in costs, d \in Matrices(prog, relaxed), b \in Bases}

\* the answers optimize() can give on the program prog
Optimize(prog, relaxed) ==
    LET feasible == \A k \in 1 .. nx : prog.x0lb[k] <= prog.x0ub[k]
        within   == {c \in Costs : c <= prog.cutoff}
        beyond   == {c \in Costs : c > prog.cutoff}
        optimal  == {[status |-> 2, opt |-> Just(s.objVal), sol |-> Just(s)] :
                        s \in Solutions(prog, within, relaxed)}
        subopt   == {[status |-> 13, opt |-> Just(c), sol |-> None] : c \in within}
        cutoff   == {[status |-> 6, opt |-> o, sol |-> None] :
                        o \in {Just(c) : c \in beyond}
                              \cup (IF prog.cutoff < Infinity THEN {None} ELSE {})}
        failed   == {[status |-> st, opt |-> None, sol |-> None] : st \in {3, 4, 5}}
        numeric  == {[status |-> 12, opt |-> o, sol |-> None] :
                        o \in {None} \cup {Just(c) : c \in Costs}}
    IN  (IF feasible THEN optimal \cup subopt \cup cutoff ELSE {})
            \cup failed \cup numeric

\* the program as optimize() sees it
Program(vtype, lb, ub, xlb, xub, cutoff) ==
    [vtype |-> vtype, lb |-> lb, ub |-> ub, x0lb |-> xlb, x0ub |-> xub, cutoff |-> cutoff]

-----------------------------------------------------------------------------
(* What solve_relaxation derives from the solver's values.                 *)

\* max(dt)
RECURSIVE MaxSeq(_)
MaxSeq(s) ==
    IF Len(s) = 1 THEN s[1]
    ELSE LET m == MaxSeq(Tail(s)) IN IF Head(s) >= m THEN Head(s) ELSE m

\* dt.index(max(dt)): the first (0-based) index holding the maximum
IndexOfMax(dt) ==
    LET m == MaxSeq(dt)
        i == CHOOSE i \in 1 .. Len(dt) : dt[i] = m /\ \A j \in 1 .. (i - 1) : dt[j] # m
    IN  i - 1

\* insert the value v into the ascending sequence s, after its equals
RECURSIVE InsertSorted(_, _)
InsertSorted(s, v) ==
    IF s = <<>> THEN <<v>>
    ELSE IF v < Head(s) THEN <<v>> \o s
    ELSE <<Head(s)>> \o InsertSorted(Tail(s), v)

\* sorted(dt)
RECURSIVE Sorted(_)
Sorted(dt) ==
    IF dt = <<>> THEN <<>>
    ELSE InsertSorted(Sorted(SubSeq(dt, 1, Len(dt) - 1)), dt[Len(dt)])

\* np.allclose(a, b): |a - b| <= atol + rtol * |b| elementwise
AllClose(a, b) ==
    /\ Len(a) = Len(b)
    /\ \A i \in 1 .. Len(a) : Abs(a[i] - b[i]) <= Atol + (Abs(b[i]) \div RtolInv)

\* [0.]*(len(dt)-1)+[1.]
UnitTarget(n) == [i \in 1 .. n |-> IF i = n THEN One ELSE 0]

\* an integrality test that looks at the largest indicator only
RowIntegralMaxOnly(dt) == AllClose(<<MaxSeq(dt)>>, <<One>>)

\* np.allclose(sorted(dt), [0.]*(len(dt)-1)+[1.])
RowIntegral(dt) == AllClose(Sorted(dt), UnitTarget(Len(dt)))

mode_sequence_of(d) == [t \in 1 .. Len(d) |-> IndexOfMax(d[t])]

integer_feasible_of(d) == \A t \in 1 .. Len(d) : RowIntegral(d[t])

\* np.argsort(children_score): the 0-based indices in ascending order of
\* score, equal scores in index order; built by inserting index n-1 last
RECURSIVE InsertIndex(_, _, _)
InsertIndex(order, score, i) ==
    IF order = <<>> THEN <<i>>
    ELSE IF score[i + 1] < score[Head(order) + 1] THEN <<i>> \o order
    ELSE <<Head(order)>> \o InsertIndex(Tail(order), score, i)

RECURSIVE ArgSortUpTo(_, _)
ArgSortUpTo(score, n) ==
    IF n = 0 THEN <<>>
    ELSE InsertIndex(ArgSortUpTo(score, n - 1), score, n - 1)

ArgSort(score) == ArgSortUpTo(score, Len(score))

\* the ordering without the reversal
NotReversed(s) == s

\* [::-1]
Reversed(s) == [i \in 1 .. Len(s) |-> s[Len(s) + 1 - i]]

\* children_order.pop(children_order.index(v)) followed by insert(0, v)
MoveToFront(order, v) ==
    LET at == CHOOSE i \in 1 .. Len(order) :
                  order[i] = v /\ \A j \in 1 .. (i - 1) : order[j] # v
    IN  <<v>> \o SubSeq(order, 1, at - 1) \o SubSeq(order, at + 1, Len(order))

\* mode_heuristic(d), reading self.partial_mode_sequence = pms
mode_heuristic(d, pms) ==
    LET children_score == d[Len(pms) + 1]
        sorted_order   == Reversed(ArgSort(children_score))
        children_order == IF Len(pms) > 0
                          THEN MoveToFront(sorted_order, pms[Len(pms)])
                          ELSE sorted_order
    IN  [order |-> children_order, score |-> children_score]

\* result['feasible'] for a status that is not 'cutoff'
FeasibleFlag(status) == read_gurobi_status(status) = "optimal"

\* solve_time, cutoff and feasible: the result on the early return
StatusFields(status) ==
    LET cutoff == read_gurobi_status(status) = "cutoff"
    IN  [solve_time |-> "Runtime",
         cutoff     |-> cutoff,
         feasible   |-> IF cutoff THEN None ELSE Just(FeasibleFlag(status))]

\* x, u, mode_sequence and integer_feasible
PrimalFields(s) ==
    [x                |-> s.x,
     u                |-> s.u,
     mode_sequence    |-> mode_sequence_of(s.d),
     integer_feasible |-> integer_feasible_of(s.d)]

\* children_order and children_score
HeuristicFields(s, pms) ==
    IF Len(pms) < N
    THEN LET mh == mode_heuristic(s.d, pms)
         IN  [children_order |-> Just(mh.order), children_score |-> Just(mh.score)]
    ELSE [children_order |-> None, children_score |-> None]

\* the solver outputs without the basis snapshot
SolverOutputsCostOnly(s) == [cost |-> s.objVal]

\* cost, variable_basis and constraint_basis
SolverOutputs(s) ==
    [cost |-> s.objVal, variable_basis |-> s.basis, constraint_basis |-> s.basis]

\* the result dictionary of solve_relaxation: out is the solver's answer,
\* pms the installed partial mode sequence
RelaxationResult(out, pms) ==
    LET early == StatusFields(out.status)
    IN  IF early.cutoff \/ early.feasible # Just(TRUE)
        THEN early
        ELSE early @@ PrimalFields(out.sol[1]) @@ HeuristicFields(out.sol[1], pms)
                   @@ SolverOutputs(out.sol[1])

\* what feedforward_gurobi returns: (u, x, ms, cost) or [None]*4
ExactResult(out) ==
    IF read_gurobi_status(out.status) = "optimal"
    THEN LET s == out.sol[1]
         IN  <<Just(s.u), Just(s.x), Just(mode_sequence_of(s.d)), Just(s.objVal)>>
    ELSE <<None, None, None, None>>

-----------------------------------------------------------------------------
(* The controller.                                                         *)

\* the arguments a caller passes as warm_start
WarmStarts == {None} \cup {Just([variable_basis |-> b, constraint_basis |-> b]) : b \in Bases}

CutoffArguments == {None} \cup {Just(c) : c \in CutoffValues}

\* __init__ / build_mpmiqp: x0 pinned to zero, indicators continuous with
\* the default bounds [0, inf), nothing fixed, no cutoff
CtlInit ==
    /\ x0LB = [k \in 1 .. nx |-> 0]
    /\ x0UB = [k \in 1 .. nx |-> 0]
    /\ dLB = [t \in Stages |-> [i \in Modes |-> 0]]
    /\ dUB = [t \in Stages |-> [i \in Modes |-> Infinity]]
    /\ dVType = DType("C")
    /\ partial_mode_sequence = <<>>
    /\ Cutoff = Infinity
    /\ VBasis = None
    /\ CBasis = None
    /\ call = [op |-> "__init__"]
    /\ solved = None
    /\ result = None

set_initial_condition(x0) ==
    /\ x0LB' = InitialConditionBounds(x0)
    /\ x0UB' = InitialConditionBounds(x0)
    /\ call' = [op |-> "set_initial_condition", x0 |-> x0]
    /\ result' = None
    /\ solved' = None
    /\ UNCHANGED <<dLB, dUB, dVType, partial_mode_sequence, Cutoff, VBasis, CBasis>>

update_mode_sequence(p) ==
    /\ dLB' = UpdatedLB(dLB, partial_mode_sequence, p)
    /\ partial_mode_sequence' = p
    /\ call' = [op |-> "update_mode_sequence", partial_mode_sequence |-> p]
    /\ result' = None
    /\ solved' = None
    /\ UNCHANGED <<x0LB, x0UB, dUB, dVType, Cutoff, VBasis, CBasis>>

\* a solve that never installs its cutoff_value
CutoffNotInstalled(cutoff_value, current) == current

\* the Cutoff parameter after "if cutoff_value is not None: setParam(...)"
CutoffAfter(cutoff_value, current) ==
    IF cutoff_value # None THEN cutoff_value[1] ELSE current

solve_relaxation(p, cutoff_value, warm_start, relaxed) ==
    LET vb0  == IF warm_start # None THEN Just(warm_start[1].variable_basis) ELSE VBasis
        cb0  == IF warm_start # None THEN Just(warm_start[1].constraint_basis) ELSE CBasis
        cut  == CutoffAfter(cutoff_value, Cutoff)
        lb   == UpdatedLB(dLB, partial_mode_sequence, p)
        prog == Program(dVType, lb, dUB, x0LB, x0UB, cut)
    IN  \E out \in Optimize(prog, relaxed) :
            /\ Cutoff' = cut
            /\ dLB' = lb
            /\ partial_mode_sequence' = p
            /\ solved' = Just([prog |-> prog, status |-> out.status, opt |-> out.opt,
                                 sol |-> out.sol])
            /\ VBasis' = IF out.sol # None THEN Just(out.sol[1].basis) ELSE vb0
            /\ CBasis' = IF out.sol # None THEN Just(out.sol[1].basis) ELSE cb0
            /\ result' = RelaxationResult(out, p)
            /\ call' = [op |-> "solve_relaxation", partial_mode_sequence |-> p,
                        cutoff_value |-> cutoff_value]
            /\ UNCHANGED <<x0LB, x0UB, dUB, dVType>>

\* feedforward_gurobi without its closing set_d_type('C')
TypeNotRestored == DType("B")

\* the indicator types once feedforward_gurobi has returned
TypeAfterExact == DType("C")

\* (the OutputFlag parameter, which only switches the solver's log on, is
\* not part of the modelled program)
feedforward_gurobi(x0, relaxed) ==
    LET lb   == UpdatedLB(dLB, partial_mode_sequence, <<>>)
        xb   == InitialConditionBounds(x0)
        prog == Program(DType("B"), lb, dUB, xb, xb, Cutoff)
    IN  \E out \in Optimize(prog, relaxed) :
            /\ dVType' = TypeAfterExact
            /\ dLB' = lb
            /\ partial_mode_sequence' = <<>>
            /\ x0LB' = xb
            /\ x0UB' = xb
            /\ solved' = Just([prog |-> prog, status |-> out.status, opt |-> out.opt,
                                 sol |-> out.sol])
            /\ result' = ExactResult(out)
            /\ call' = [op |-> "feedforward_gurobi", x0 |-> x0]
            /\ UNCHANGED <<dUB, Cutoff, VBasis, CBasis>>

-----------------------------------------------------------------------------
(* get_big_m.  A polyhedron {z : A z <= b} is a sequence of rows           *)
(* [a |-> A[k], b |-> b[k,0]] over a one-dimensional z; lengths are        *)
(* integers in units of half the tolerance tol = 1e-6.                     *)

\* tol, in those units
BigMTol == 2

BValues == {0, 1, 3}

ZGrid == -3 .. 3

Rows == {[a |-> a, b |-> b] : a \in {-1, 1}, b \in BValues}

\* bounded polyhedra: an upper row, a lower row and one more row
Polyhedra ==
    {<<up, lo, extra>> : up \in {r \in Rows : r.a = 1},
                         lo \in {r \in Rows : r.a = -1},
                         extra \in Rows}

Points(Pj) == {z \in ZGrid : \A k \in 1 .. Len(Pj) : Pj[k].a * z <= Pj[k].b}

\* linear_program(f, A, b): the minimum of f z over the polyhedron, None
\* when the polyhedron is empty
linear_program(f, Pj) ==
    IF Points(Pj) = {} THEN [min |-> None]
    ELSE [min |-> Just(CHOOSE v \in {f * z : z \in Points(Pj)} :
                          \A z \in Points(Pj) : v <= f * z)]

\* mijk without the snap to zero
BigMEntryUnsnapped(Pi, Pj, k) ==
    LET f   == 0 - Pi[k].a
        sol == linear_program(f, Pj)
    IN  0 - sol.min[1] - Pi[k].b

\* the body of the innermost loop: mijk for row k of Pi over Pj
BigMEntry(Pi, Pj, k) ==
    LET f    == 0 - Pi[k].a
        sol  == linear_program(f, Pj)
        mijk == 0 - sol.min[1] - Pi[k].b
    IN  IF Abs(mijk) < BigMTol THEN 0 ELSE mijk

\* np.maximum.reduce over j of m[i][j], row k
RECURSIVE MaxOverModes(_, _, _)
MaxOverModes(mi, k, n) ==
    IF n = 1 THEN mi[1][k]
    ELSE LET rest == MaxOverModes(mi, k, n - 1)
         IN  IF mi[n][k] > rest THEN mi[n][k] ELSE rest

\* get_big_m(P_list): (m, mi), or an error when a linear program has no
\* minimum to read
get_big_m(P) ==
    IF \E j \in 1 .. Len(P) : linear_program(1, P[j]).min = None
    THEN [error |-> TRUE]
    ELSE LET m == [i \in 1 .. Len(P) |->
                    [j \in 1 .. Len(P) |->
                      [k \in 1 .. Len(P[i]) |-> BigMEntry(P[i], P[j], k)]]]
         IN  [error |-> FALSE,
              m     |-> m,
              mi    |-> [i \in 1 .. Len(P) |->
                          [k \in 1 .. Len(P[i]) |-> MaxOverModes(m[i], k, Len(P))]]]

BigMInit ==
    /\ P_list \in [1 .. nm -> Polyhedra]
    /\ bigM = None

BuildBigM ==
    /\ bigM = None
    /\ bigM' = Just(get_big_m(P_list))
    /\ UNCHANGED P_list

-----------------------------------------------------------------------------
(* Specifications.                                                         *)

\* the controller, once built (the big-M table is local to build_mpmiqp and
\* is not kept); feedforward is set_initial_condition followed by the
\* solve_relaxation calls of the tree search
Init ==
    /\ CtlInit
    /\ P_list = <<>>
    /\ bigM = None

Next ==
    \/ \E x0 \in X0Vectors : set_initial_condition(x0) /\ UNCHANGED bigMVars
    \/ \E p \in PartialSequences : update_mode_sequence(p) /\ UNCHANGED bigMVars
    \/ \E p \in PartialSequences, c \in CutoffArguments, w \in WarmStarts :
          solve_relaxation(p, c, w, FALSE) /\ UNCHANGED bigMVars
    \/ \E x0 \in X0Vectors : feedforward_gurobi(x0, FALSE) /\ UNCHANGED bigMVars

Spec == Init /\ [][Next]_vars

\* one solve_relaxation call on the controller as built, after
\* set_initial_condition, over every relaxed solution the solver can return
NextRelaxed ==
    \/ /\ call.op = "__init__"
       /\ \E x0 \in X0Vectors : set_initial_condition(x0) /\ UNCHANGED bigMVars
    \/ /\ call.op = "set_initial_condition"
       /\ \E p \in PartialSequences :
             solve_relaxation(p, None, None, TRUE) /\ UNCHANGED bigMVars

SpecRelaxed == Init /\ [][NextRelaxed]_vars

\* the construction of the big-M table over every system of nm polyhedra
InitBigM ==
    /\ CtlInit
    /\ BigMInit

NextBigM == BuildBigM /\ UNCHANGED ctlVars

SpecBigM == InitBigM /\ [][NextBigM]_vars

-----------------------------------------------------------------------------
(* Properties.                                                             *)

SolutionFields ==
    {"x", "u", "mode_sequence", "integer_feasible", "cost", "children_order",
     "children_score"}

BasisFields == {"variable_basis", "constraint_basis"}

Solved == solved[1]

StatusName == read_gurobi_status(Solved.status)

IsRelaxation == call.op = "solve_relaxation"

\* a within the allclose tolerance of b
Close(a, b) == Abs(a - b) <= Atol + (Abs(b) \div RtolInv)

\* C1: whenever the solve inside solve_relaxation ends optimal or
\* sub-optimal, the result has feasible=True and every solution field
\* (the basis snapshot included) is populated.
C1_OptimalOrSuboptimalIsFeasible ==
    (IsRelaxation /\ StatusName \in {"optimal", "suboptimal"}) =>
        /\ result.feasible = Just(TRUE)
        /\ (SolutionFields \cup BasisFields) \subseteq DOMAIN result

\* C2: a solve that ends with the cutoff status gives cutoff=True,
\* feasible=None and no solution field; one that ends infeasible, unbounded,
\* inf-or-unbounded or with a numeric failure gives cutoff=False,
\* feasible=False and no solution field; and a solve whose installed
\* cutoff_value lies strictly below the program's optimal cost, the solver
\* not failing numerically, gives the cutoff result.
C2_CutoffAndFailureResults ==
    IsRelaxation =>
        /\ StatusName = "cutoff" =>
              /\ result.cutoff = TRUE
              /\ result.feasible = None
              /\ DOMAIN result \cap SolutionFields = {}
        /\ StatusName \in {"infeasible", "unbounded", "inf_or_unbd", "numeric"} =>
              /\ result.cutoff = FALSE
              /\ result.feasible = Just(FALSE)
              /\ DOMAIN result \cap SolutionFields = {}
        /\ (/\ call.cutoff_value # None
            /\ Solved.opt # None
            /\ StatusName # "numeric"
            /\ call.cutoff_value[1] < Solved.opt[1]) =>
              /\ result.cutoff = TRUE
              /\ result.feasible = None
              /\ DOMAIN result \cap SolutionFields = {}

\* a cutoff of 1 installed on a program of optimal cost 2 gave the cutoff result
C2_Witness ==
    /\ IsRelaxation
    /\ call.cutoff_value = Just(1)
    /\ Solved.opt = Just(2)
    /\ result.cutoff = TRUE

\* C3 as stated: every solve_relaxation result, whatever the outcome,
\* carries variable_basis and constraint_basis.
C3_BasisAlwaysReturned == IsRelaxation => BasisFields \subseteq DOMAIN result

\* C3 as amended: a solve_relaxation result carries the basis snapshot
\* exactly when it is feasible=True, and the snapshot is then the basis the
\* program holds after the solve; cutoff and infeasible results carry none.
C3_BasisIffFeasible ==
    IsRelaxation =>
        /\ result.feasible = Just(TRUE) =>
              /\ BasisFields \subseteq DOMAIN result
              /\ Just(result.variable_basis) = VBasis
              /\ Just(result.constraint_basis) = CBasis
        /\ result.feasible # Just(TRUE) => DOMAIN result \cap BasisFields = {}

\* a feasible result with its basis, for a non-empty partial sequence
C3_Witness ==
    /\ IsRelaxation
    /\ result.feasible = Just(TRUE)
    /\ result.variable_basis \in Bases
    /\ Len(call.partial_mode_sequence) > 0

\* C4: a second update_mode_sequence(p) right after update_mode_sequence(p)
\* changes no variable bound of the program and not the stored sequence.
C4_UpdateIdempotent ==
    [][(/\ call.op = "update_mode_sequence"
        /\ call'.op = "update_mode_sequence"
        /\ call'.partial_mode_sequence = call.partial_mode_sequence) =>
           /\ dLB' = dLB
           /\ dUB' = dUB
           /\ x0LB' = x0LB
           /\ x0UB' = x0UB
           /\ partial_mode_sequence' = partial_mode_sequence]_vars

\* update_mode_sequence has installed a full-length sequence
C4_Witness ==
    /\ call.op = "update_mode_sequence"
    /\ Len(call.partial_mode_sequence) = N
    /\ \A t \in Stages : dLB[t][call.partial_mode_sequence[t + 1]] = 1

\* C5: once feedforward_gurobi has returned, every indicator is continuous,
\* none has its lower bound at 1 and the stored sequence is empty; the
\* program it solved had every indicator binary, none fixed, and the
\* stage-0 state bounds equal to x0.
C5_ExactSolveRestores ==
    call.op = "feedforward_gurobi" =>
        /\ \A t \in Stages, i \in Modes : dVType[t][i] = "C" /\ dLB[t][i] # 1
        /\ partial_mode_sequence = <<>>
        /\ \A t \in Stages, i \in Modes :
              Solved.prog.vtype[t][i] = "B" /\ Solved.prog.lb[t][i] = 0
        /\ \A k \in 1 .. nx :
              Solved.prog.x0lb[k] = call.x0[k] /\ Solved.prog.x0ub[k] = call.x0[k]

\* an exact solve at x0 = 1 on a controller an earlier solve left a cutoff on
C5_Witness ==
    /\ call.op = "feedforward_gurobi"
    /\ call.x0[1] = 1
    /\ Cutoff < Infinity
    /\ result[4] # None

\* C6: in a feasible result, integer_feasible=True implies that at every
\* stage exactly one indicator is 1 within tolerance, all others are 0
\* within tolerance, and mode_sequence names that indicator.
C6_IntegerFeasibleModeSequence ==
    (IsRelaxation /\ result.feasible = Just(TRUE) /\ result.integer_feasible) =>
        \A t \in 1 .. N :
            LET dt == Solved.sol[1].d[t]
                i  == result.mode_sequence[t] + 1
            IN  /\ Close(dt[i], One)
                /\ \A j \in 1 .. nm : j # i => Close(dt[j], 0) /\ ~Close(dt[j], One)

\* an integer-feasible result whose indicators are not exactly 0 and 1
C6_Witness ==
    /\ IsRelaxation
    /\ result.feasible = Just(TRUE)
    /\ result.integer_feasible
    /\ \E t \in 1 .. N : Solved.sol[1].d[t][result.mode_sequence[t] + 1] # One

\* the scores of order[from..] never increase
Descending(order, score, from) ==
    \A a, b \in from .. Len(order) : a < b => score[order[a] + 1] >= score[order[b] + 1]

Fixing(p) == [t \in Stages |-> [i \in Modes |-> IF t < Len(p) /\ p[t + 1] = i THEN 1 ELSE 0]]

\* C9: after every call the lower bound of d_t[i] is 1 when the partial
\* sequence p of the most recent call (empty for feedforward_gurobi) has
\* p[t] = i and 0 otherwise; update_mode_sequence changes no indicator upper
\* bound and no stage-0 state bound.
C9_FixingsFollowSequence ==
    /\ [](/\ dLB = Fixing(partial_mode_sequence)
          /\ call.op \in {"update_mode_sequence", "solve_relaxation"} =>
                partial_mode_sequence = call.partial_mode_sequence
          /\ call.op = "feedforward_gurobi" => partial_mode_sequence = <<>>)
    /\ [][call'.op = "update_mode_sequence" =>
             dUB' = dUB /\ x0LB' = x0LB /\ x0UB' = x0UB]_vars

\* update_mode_sequence installed a sequence of length 1 on a controller
\* that has solved before: its entry is fixed and every later stage is free
C9_Witness ==
    /\ call.op = "update_mode_sequence"
    /\ Len(call.partial_mode_sequence) = 1
    /\ VBasis # None
    /\ dLB[0][call.partial_mode_sequence[1]] = 1
    /\ \A t \in Stages \ {0}, i \in Modes : dLB[t][i] = 0

\* C10: a solve_relaxation call made with cutoff_value=None never reports
\* cutoff=True, and the exact solve of feedforward_gurobi never ends with
\* the cutoff status, whatever cutoff an earlier call installed.
C10_CutoffNotInherited ==
    /\ (IsRelaxation /\ call.cutoff_value = None) => result.cutoff = FALSE
    /\ call.op = "feedforward_gurobi" => StatusName # "cutoff"

\* the worst slack of row k of Pi over Pj: the maximum of A_i[k] z - b_i[k]
WorstSlack(Pi, Pj, k) ==
    CHOOSE v \in {Pi[k].a * z - Pi[k].b : z \in Points(Pj)} :
        \A z \in Points(Pj) : v >= Pi[k].a * z - Pi[k].b

\* C7 as stated: every entry m[i][j][k], i == j included, is >= 0 when
\* mode j's polyhedron is non-empty and bounded.
C7_BigMNonNegative ==
    (bigM # None /\ ~bigM[1].error) =>
        \A i, j \in 1 .. nm : \A k \in 1 .. Len(P_list[i]) : bigM[1].m[i][j][k] >= 0

\* C7 as amended: m[i][j][k] is the worst slack of row k of mode i over mode
\* j's polyhedron, snapped to 0 within tol of 0; it is >= 0 exactly when the
\* worst slack is above -tol, so it is negative when mode j's polyhedron lies
\* inside the row's half-space by tol or more; for i == j it is never positive.
C7_BigMIsWorstSlack ==
    (bigM # None /\ ~bigM[1].error) =>
        \A i, j \in 1 .. nm : \A k \in 1 .. Len(P_list[i]) :
            LET worst == WorstSlack(P_list[i], P_list[j], k)
                mijk  == bigM[1].m[i][j][k]
            IN  /\ mijk >= 0 <=> worst > 0 - BigMTol
                /\ mijk < 0 => mijk = worst
                /\ mijk > 0 => mijk = worst
                /\ i = j => mijk <= 0

\* a table with a negative entry, a snapped entry and a positive entry
C7_Witness ==
    /\ bigM # None
    /\ ~bigM[1].error
    /\ \E i, j \in 1 .. nm : \E k \in 1 .. Len(P_list[i]) : bigM[1].m[i][j][k] < 0
    /\ \E i, j \in 1 .. nm : \E k \in 1 .. Len(P_list[i]) :
          /\ bigM[1].m[i][j][k] = 0
          /\ WorstSlack(P_list[i], P_list[j], k) # 0
    /\ \E i, j \in 1 .. nm : \E k \in 1 .. Len(P_list[i]) : bigM[1].m[i][j][k] > 0

====
